---- MODULE Spec2Model ----
(***************************************************************************)
(* Model of the free-bird signaling server (signaling-server.js): a        *)
(* WebSocket room broker.  The module-level Map `rooms` maps a room key to *)
(* a Set of sockets; every socket carries `readyState` (kept by the ws     *)
(* library) and `roomId` (set by the join handler).  One action per event  *)
(* handler: 'connection', 'message', 'close', plus the transport step that *)
(* moves a socket from OPEN to CLOSING before its 'close' event is         *)
(* emitted.                                                                *)
(*                                                                         *)
(* `crashed` is set when a handler throws an error nobody catches, which  *)
(* ends the Node process.                                                  *)
(*                                                                         *)
(* History variables: `sent` is the list of ws.send calls made by the last *)
(* handler, in call order; `last` names the last event; `handled` counts   *)
(* the 'message' events so far.                                            *)
(***************************************************************************)
EXTENDS Naturals, Sequences, FiniteSets

VARIABLES rooms, roomId, readyState, crashed, sent, last, handled

vars == <<rooms, roomId, readyState, crashed, sent, last, handled>>

\* Number of sockets that connect during a run; each connects once, and
\* they are numbered in the order of their 'connection' events.
MaxConns == 3

Conns == 1..MaxConns

\* Number of 'message' events handled during a run.
MaxMessages == 3

\* The value of a property that is not there (JS undefined).
Undefined == "undefined"

\* Room keys a client puts in the room field; "" is the empty string.
RoomKeys == {"r1", "r2", ""}

\* Values of the type field a client sends; "ping" is a type the switch
\* has no case for.
Types == {"join", "offer", "answer", "candidate", "ping"}

ForwardTypes == {"offer", "answer", "candidate"}

(***************************************************************************)
(* Text frames.  A frame is [syntax, fields]: syntax "bad" is text that is *)
(* not JSON, "null" the JSON text null, "scalar" a JSON number, string or  *)
(* array, and "object" a JSON object whose members, in textual order, are  *)
(* the <<key, value>> pairs of fields (a key may be repeated).  A value is  *)
(* the token written in the text: a string token is modelled by the string *)
(* it spells, a number token or the token null by its spelling; the        *)
(* strings the frames use are never spelled like a number token or null.   *)
(***************************************************************************)
Frame(syn, fs) == [syntax |-> syn, fields |-> fs]

\* The handshake payload members a frame of each forwarded type carries;
\* the offer repeats a key; the candidate carries the number tokens 0, -0
\* and 1e999 (a number beyond the range of a double).
Payload(t) ==
    IF t = "offer" THEN << <<"sdp", "a">>, <<"sdp", "b">> >>
    ELSE IF t = "answer" THEN << <<"sdp", "a">> >>
    ELSE << <<"candidate", "c">>, <<"sdpMLineIndex", "0">>,
            <<"weight", "-0">>, <<"priority", "1e999">> >>

TypeMember(t) == IF t = Undefined THEN <<>> ELSE << <<"type", t>> >>

RoomMember(r) == IF r = Undefined THEN <<>> ELSE << <<"room", r>> >>

\* {"type":"join","room":r}; without the room member when r is Undefined.
JoinFrame(r) == Frame("object", TypeMember("join") \o RoomMember(r))

\* {"type":t,"room":r,...payload}
ForwardFrame(t, r) == Frame("object", TypeMember(t) \o RoomMember(r) \o Payload(t))

\* Every value of room the handlers can see.
AllKeys == RoomKeys \cup {Undefined}

ObjectFrames ==
    { JoinFrame(r) : r \in AllKeys }
    \cup { ForwardFrame(t, r) : t \in ForwardTypes, r \in AllKeys }
    \cup { Frame("object", TypeMember(t)) :
              t \in (Types \ ({"join"} \cup ForwardTypes)) \cup {Undefined} }

Frames == { Frame("bad", <<>>), Frame("null", <<>>), Frame("scalar", <<>>) }
            \cup ObjectFrames

(***************************************************************************)
(* JSON.parse and JSON.stringify.  A parsed object is its own properties   *)
(* in insertion order, each key once: a repeated key keeps the position of *)
(* its first occurrence and the value of its last.  A property's value is  *)
(* a JS value: a string, null ("null") or a Number, named "0", "-0" and    *)
(* "Infinity".                                                             *)
(***************************************************************************)

\* JSON.parse of a value token: a number token beyond the range of a double
\* is the Number Infinity, -0 is the negative zero; a string token is the
\* string, null is null.
ParseValue(token) == IF token = "1e999" THEN "Infinity" ELSE token

\* JSON.stringify of a value: a Number that is not finite is written null,
\* the negative zero is written 0; a string is written as its token.
StringifyValue(v) ==
    IF v = "Infinity" THEN "null"
    ELSE IF v = "-0" THEN "0"
    ELSE v

HasKey(props, k) == \E i \in 1..Len(props) : props[i][1] = k

SetProp(props, k, v) ==
    IF HasKey(props, k)
    THEN [i \in 1..Len(props) |->
             IF props[i][1] = k THEN <<k, v>> ELSE props[i]]
    ELSE Append(props, <<k, v>>)

RECURSIVE ParseMembers(_, _)
ParseMembers(fs, props) ==
    IF fs = <<>> THEN props
    ELSE ParseMembers(Tail(fs),
                      SetProp(props, Head(fs)[1], ParseValue(Head(fs)[2])))

\* JSON.parse throws a SyntaxError on the frame.
ParseThrows(frame) == frame.syntax = "bad"

\* JSON.parse(message): the kind of value and, for an object, its properties.
JSONparse(frame) ==
    [kind |-> frame.syntax,
     props |-> IF frame.syntax = "object"
               THEN ParseMembers(frame.fields, <<>>) ELSE <<>>]

\* JSON.stringify(message) of an object: its properties in insertion order,
\* each value written as its token.
JSONstringify(data) ==
    Frame("object", [i \in 1..Len(data.props) |->
                        <<data.props[i][1], StringifyValue(data.props[i][2])>>])

\* data.key, Undefined when the property is absent (or data is a scalar).
Get(data, k) ==
    IF HasKey(data.props, k)
    THEN LET i == CHOOSE j \in 1..Len(data.props) : data.props[j][1] = k
         IN  data.props[i][2]
    ELSE Undefined

\* The object literals the handlers send.
TypeOnly(t) == [kind |-> "object", props |-> << <<"type", t>> >>]

\* The text of a message the broker originates: {"type":t}
BrokerFrame(t) == JSONstringify(TypeOnly(t))

BrokerFrames == { BrokerFrame(t) : t \in {"joined", "ready", "leave"} }

(***************************************************************************)
(* The registry.  DOMAIN rms is the set of keys of the Map; rms[k] is the  *)
(* Set at k as the sequence of its elements in insertion order.            *)
(***************************************************************************)
Range(s) == { s[i] : i \in 1..Len(s) }

RoomsHas(rms, k) == k \in DOMAIN rms

\* new Set() stored under a key that is not in the Map yet.
RoomsSetNew(rms, k) ==
    [x \in (DOMAIN rms) \cup {k} |-> IF x \in DOMAIN rms THEN rms[x] ELSE <<>>]

\* Set.prototype.add
SetAdd(s, c) == IF c \in Range(s) THEN s ELSE Append(s, c)

\* Set.prototype.delete
SetDelete(s, c) == SelectSeq(s, LAMBDA x : x # c)

\* The members of room k; empty when the Map has no such key.
Members(rms, k) == IF RoomsHas(rms, k) THEN Range(rms[k]) ELSE {}

Send(c, data) == [to |-> c, data |-> JSONstringify(data)]

\* broadcast without the client !== sender test.
broadcast_NoExclude(rms, rs, room, message, sender) ==
    IF RoomsHas(rms, room)
    THEN LET targets == SelectSeq(rms[room], LAMBDA client : rs[client] = "OPEN")
         IN  [i \in 1..Len(targets) |-> Send(targets[i], message)]
    ELSE <<>>

\* broadcast without the readyState test.
broadcast_NoOpenTest(rms, rs, room, message, sender) ==
    IF RoomsHas(rms, room)
    THEN LET targets == SelectSeq(rms[room], LAMBDA client : client # sender)
         IN  [i \in 1..Len(targets) |-> Send(targets[i], message)]
    ELSE <<>>

\* broadcast(room, message, sender): the sends it makes, in order.
broadcast(rms, rs, room, message, sender) ==
    IF RoomsHas(rms, room)
    THEN LET targets == SelectSeq(rms[room],
                            LAMBDA client : client # sender /\ rs[client] = "OPEN")
         IN  [i \in 1..Len(targets) |-> Send(targets[i], message)]
    ELSE <<>>

\* The last event: its kind, its socket and, for a message, what the handler
\* dispatched on ("SyntaxError" when JSON.parse threw).
Event(op, c, type) == [op |-> op, conn |-> c, type |-> type]

Init ==
    /\ rooms = <<>>
    /\ roomId = [c \in Conns |-> Undefined]
    /\ readyState = [c \in Conns |-> "CONNECTING"]
    /\ crashed = FALSE
    /\ sent = <<>>
    /\ last = Event("init", 0, Undefined)
    /\ handled = 0

\* wss.on('connection'): the socket is open, the handlers are installed.
Connection(ws) ==
    /\ ~crashed
    /\ readyState[ws] = "CONNECTING"
    /\ \A other \in Conns : other < ws => readyState[other] # "CONNECTING"
    /\ readyState' = [readyState EXCEPT ![ws] = "OPEN"]
    /\ sent' = <<>>
    /\ last' = Event("connection", ws, Undefined)
    /\ UNCHANGED <<rooms, roomId, crashed, handled>>

\* case 'join' with the size tests off by one (size read before the add).
Join_SizeBeforeAdd(ws, room) ==
    LET created == IF RoomsHas(rooms, room) THEN rooms ELSE RoomsSetNew(rooms, room)
        roomClients == SetAdd(created[room], ws)
        joinedRooms == [created EXCEPT ![room] = roomClients]
    IN  /\ rooms' = joinedRooms
        /\ roomId' = [roomId EXCEPT ![ws] = room]
        /\ sent' = IF Len(created[room]) = 1
                   THEN << Send(ws, TypeOnly("joined")) >>
                   ELSE IF Len(created[room]) = 2
                        THEN broadcast(joinedRooms, readyState, room, TypeOnly("ready"), ws)
                        ELSE <<>>
        /\ UNCHANGED <<readyState, crashed>>

\* case 'join' that greets every joiner of a room of at most two.
Join_JoinedAlso(ws, room) ==
    LET created == IF RoomsHas(rooms, room) THEN rooms ELSE RoomsSetNew(rooms, room)
        roomClients == SetAdd(created[room], ws)
        joinedRooms == [created EXCEPT ![room] = roomClients]
    IN  /\ rooms' = joinedRooms
        /\ roomId' = [roomId EXCEPT ![ws] = room]
        /\ sent' = IF Len(roomClients) = 1
                   THEN << Send(ws, TypeOnly("joined")) >>
                   ELSE IF Len(roomClients) = 2
                        THEN << Send(ws, TypeOnly("joined")) >>
                             \o broadcast(joinedRooms, readyState, room, TypeOnly("ready"), ws)
                        ELSE <<>>
        /\ UNCHANGED <<readyState, crashed>>

\* case 'join' whose second test is size >= 2.
Join_ReadyFromTwo(ws, room) ==
    LET created == IF RoomsHas(rooms, room) THEN rooms ELSE RoomsSetNew(rooms, room)
        roomClients == SetAdd(created[room], ws)
        joinedRooms == [created EXCEPT ![room] = roomClients]
    IN  /\ rooms' = joinedRooms
        /\ roomId' = [roomId EXCEPT ![ws] = room]
        /\ sent' = IF Len(roomClients) = 1
                   THEN << Send(ws, TypeOnly("joined")) >>
                   ELSE IF Len(roomClients) >= 2
                        THEN broadcast(joinedRooms, readyState, room, TypeOnly("ready"), ws)
                        ELSE <<>>
        /\ UNCHANGED <<readyState, crashed>>

\* case 'join' that greets the joiner only when it creates the room.
Join_JoinedOnCreate(ws, room) ==
    LET created == IF RoomsHas(rooms, room) THEN rooms ELSE RoomsSetNew(rooms, room)
        roomClients == SetAdd(created[room], ws)
        joinedRooms == [created EXCEPT ![room] = roomClients]
    IN  /\ rooms' = joinedRooms
        /\ roomId' = [roomId EXCEPT ![ws] = room]
        /\ sent' = IF ~RoomsHas(rooms, room)
                   THEN << Send(ws, TypeOnly("joined")) >>
                   ELSE IF Len(roomClients) = 2
                        THEN broadcast(joinedRooms, readyState, room, TypeOnly("ready"), ws)
                        ELSE <<>>
        /\ UNCHANGED <<readyState, crashed>>

\* case 'join', lines 41-47: the registry after the room is created if
\* absent and ws is added to it.
JoinRooms(rms, ws, room) ==
    LET created == IF RoomsHas(rms, room) THEN rms ELSE RoomsSetNew(rms, room)
    IN  [created EXCEPT ![room] = SetAdd(created[room], ws)]

\* case 'join', lines 52-59: what is sent, by the size after the add.
JoinSends(rms, rs, ws, room) ==
    LET joinedRooms == JoinRooms(rms, ws, room)
        roomClients == joinedRooms[room]
    IN  IF Len(roomClients) = 1
        THEN << Send(ws, TypeOnly("joined")) >>
        ELSE IF Len(roomClients) = 2
             THEN broadcast(joinedRooms, rs, room, TypeOnly("ready"), ws)
             ELSE <<>>

\* case 'join'
Join(ws, room) ==
    /\ rooms' = JoinRooms(rooms, ws, room)
    /\ roomId' = [roomId EXCEPT ![ws] = room]
    /\ sent' = JoinSends(rooms, readyState, ws, room)
    /\ UNCHANGED <<readyState, crashed>>

\* The forward cases creating the room they name, as the join case does.
Forward_CreatesRoom(ws, room, data) ==
    /\ rooms' = IF RoomsHas(rooms, room) THEN rooms ELSE RoomsSetNew(rooms, room)
    /\ sent' = broadcast(rooms, readyState, room, data, ws)
    /\ UNCHANGED <<roomId, readyState, crashed>>

\* case 'offer' / 'answer' / 'candidate'
Forward(ws, room, data) ==
    /\ sent' = broadcast(rooms, readyState, room, data, ws)
    /\ UNCHANGED <<rooms, roomId, readyState, crashed>>

\* What the message handler does with a frame: the exception it ends with,
\* or the value of type it switches on.
Dispatch(message) ==
    IF ParseThrows(message) THEN "SyntaxError"
    ELSE IF JSONparse(message).kind = "null" THEN "TypeError"
    ELSE Get(JSONparse(message), "type")

\* ws.on('message') whose catch block does not return: data stays undefined
\* and destructuring it throws.
OnMessage_CatchFallsThrough(ws, message) ==
    /\ ~crashed
    /\ readyState[ws] = "OPEN"
    /\ handled < MaxMessages
    /\ handled' = handled + 1
    /\ last' = Event("message", ws, Dispatch(message))
    /\ IF ParseThrows(message) \/ JSONparse(message).kind = "null"
       THEN /\ crashed' = TRUE
            /\ sent' = <<>>
            /\ UNCHANGED <<rooms, roomId, readyState>>
       ELSE LET data == JSONparse(message)
                type == Get(data, "type")
                room == Get(data, "room")
            IN  IF type = "join" THEN Join(ws, room)
                ELSE IF type \in ForwardTypes THEN Forward(ws, room, data)
                ELSE /\ sent' = <<>>
                     /\ UNCHANGED <<rooms, roomId, readyState, crashed>>

\* ws.on('message')
OnMessage(ws, message) ==
    /\ ~crashed
    /\ readyState[ws] = "OPEN"
    /\ handled < MaxMessages
    /\ handled' = handled + 1
    /\ last' = Event("message", ws, Dispatch(message))
    /\ IF ParseThrows(message)
       THEN /\ sent' = <<>>
            /\ UNCHANGED <<rooms, roomId, readyState, crashed>>
       ELSE LET data == JSONparse(message)
            IN  IF data.kind = "null"
                THEN \* destructuring null throws a TypeError nobody catches
                     /\ crashed' = TRUE
                     /\ sent' = <<>>
                     /\ UNCHANGED <<rooms, roomId, readyState>>
                ELSE LET type == Get(data, "type")
                         room == Get(data, "room")
                     IN  IF type = "join" THEN Join(ws, room)
                         ELSE IF type \in ForwardTypes THEN Forward(ws, room, data)
                         ELSE /\ sent' = <<>>
                              /\ UNCHANGED <<rooms, roomId, readyState, crashed>>

\* The transport learns that the peer is going away: the socket is CLOSING
\* until its 'close' event is emitted.
SocketClosing(ws) ==
    /\ ~crashed
    /\ readyState[ws] = "OPEN"
    /\ readyState' = [readyState EXCEPT ![ws] = "CLOSING"]
    /\ sent' = <<>>
    /\ last' = Event("closing", ws, Undefined)
    /\ UNCHANGED <<rooms, roomId, crashed, handled>>

\* JS truthiness of a room key: undefined and the empty string are falsy.
Truthy(v) == v \notin {Undefined, ""}

\* ws.on('close'), lines 77-80: the registry after the handler.
CloseRooms(rms, rid, ws) ==
    IF Truthy(rid[ws]) /\ RoomsHas(rms, rid[ws])
    THEN [rms EXCEPT ![rid[ws]] = SetDelete(rms[rid[ws]], ws)]
    ELSE rms

\* ws.on('close'), lines 77-82: what the handler sends; rs is the
\* readyState of the sockets while it runs.
CloseSends(rms, rid, rs, ws) ==
    IF Truthy(rid[ws]) /\ RoomsHas(rms, rid[ws])
    THEN broadcast(CloseRooms(rms, rid, ws), rs, rid[ws], TypeOnly("leave"), ws)
    ELSE <<>>

\* ws.on('close'): emitted once, with the socket CLOSED.
OnClose(ws) ==
    /\ ~crashed
    /\ readyState[ws] = "CLOSING"
    /\ readyState' = [readyState EXCEPT ![ws] = "CLOSED"]
    /\ last' = Event("close", ws, Undefined)
    /\ rooms' = CloseRooms(rooms, roomId, ws)
    /\ sent' = CloseSends(rooms, roomId, readyState', ws)
    /\ UNCHANGED <<roomId, crashed, handled>>

Next ==
    \/ \E ws \in Conns : Connection(ws)
    \/ \E ws \in Conns, message \in Frames : OnMessage(ws, message)
    \/ \E ws \in Conns : SocketClosing(ws)
    \/ \E ws \in Conns : OnClose(ws)

Spec == Init /\ [][Next]_vars

TypeOK ==
    /\ DOMAIN rooms \subseteq AllKeys
    /\ \A k \in DOMAIN rooms : Range(rooms[k]) \subseteq Conns
    /\ roomId \in [Conns -> AllKeys]
    /\ readyState \in [Conns -> {"CONNECTING", "OPEN", "CLOSING", "CLOSED"}]
    /\ crashed \in BOOLEAN
    /\ handled \in 0..MaxMessages
    /\ \A i \in 1..Len(sent) : sent[i].to \in Conns /\ sent[i].data \in { JSONstringify(JSONparse(f)) : f \in ObjectFrames } \cup BrokerFrames

(***************************************************************************)
(* Properties.                                                             *)
(***************************************************************************)

\* The sends among s addressed to socket c, in order.
SentTo(s, c) == SelectSeq(s, LAMBDA m : m.to = c)

\* C1: when a socket sends join(R) while R has no member, the broker sends
\* exactly one message, of type 'joined', and sends it to that socket only.
C1_FirstJoinGetsJoined ==
    [][\A ws \in Conns, r \in AllKeys :
          (Members(rooms, r) = {} /\ OnMessage(ws, JoinFrame(r)))
          => sent' = << [to |-> ws, data |-> BrokerFrame("joined")] >>]_vars

\* A first join has just been answered with 'joined'.
C1_Witness ==
    /\ last.op = "message" /\ last.type = "join"
    /\ Members(rooms, roomId[last.conn]) = {last.conn}
    /\ sent = << [to |-> last.conn, data |-> BrokerFrame("joined")] >>

\* C2: when the member set of R is exactly {A}, A is open, and another socket
\* B sends join(R), then B is added to R, A receives exactly one 'ready' and
\* B receives nothing.
C2_SecondJoinReadiesFirst ==
    [][\A a \in Conns, b \in Conns, r \in AllKeys :
          (a # b /\ Members(rooms, r) = {a} /\ readyState[a] = "OPEN"
             /\ OnMessage(b, JoinFrame(r)))
          => /\ b \in Members(rooms', r)
             /\ sent' = << [to |-> a, data |-> BrokerFrame("ready")] >>]_vars

\* A second join has just produced 'ready' for the first member alone.
C2_Witness ==
    /\ last.op = "message" /\ last.type = "join"
    /\ \E a \in Conns :
          /\ a # last.conn
          /\ Members(rooms, roomId[last.conn]) = {a, last.conn}
          /\ sent = << [to |-> a, data |-> BrokerFrame("ready")] >>

\* C3: when open sockets A and B are both members of R, every offer, answer
\* or candidate that A sends with room = R is delivered to B once, with
\* exactly the fields (keys and values) of the message A sent, and is not
\* delivered to A.
C3_ForwardVerbatim ==
    [][\A a \in Conns, b \in Conns, r \in AllKeys, t \in ForwardTypes :
          (a # b /\ {a, b} \subseteq Members(rooms, r)
             /\ readyState[a] = "OPEN" /\ readyState[b] = "OPEN"
             /\ OnMessage(a, ForwardFrame(t, r)))
          => /\ Len(SentTo(sent', b)) = 1
             /\ JSONparse(SentTo(sent', b)[1].data) = JSONparse(ForwardFrame(t, r))
             /\ SentTo(sent', a) = <<>>]_vars

\* C4: if A's 'close' is handled while A shares room R with an open socket
\* B, then B receives exactly one 'leave' and A receives nothing.
C4_CloseNotifiesPeer ==
    [][\A a \in Conns, b \in Conns, r \in AllKeys :
          (a # b /\ {a, b} \subseteq Members(rooms, r)
             /\ readyState[b] = "OPEN" /\ OnClose(a))
          => /\ SentTo(sent', b) = << [to |-> b, data |-> BrokerFrame("leave")] >>
             /\ SentTo(sent', a) = <<>>]_vars

\* C5: a forwarded message with room = R1, a 'ready' caused by a join of R1
\* or a 'leave' caused by the close of a socket whose roomId is R1 is never
\* delivered to a socket that is a member of another room R2.
C5_RoomIsolation ==
    [][/\ \A ws \in Conns, r1 \in AllKeys, t \in ForwardTypes \cup {"join"} :
            OnMessage(ws, IF t = "join" THEN JoinFrame(r1) ELSE ForwardFrame(t, r1))
            => \A i \in 1..Len(sent') :
                  sent'[i].data # BrokerFrame("joined")
                  => \A r2 \in AllKeys \ {r1} : sent'[i].to \notin Members(rooms', r2)
       /\ \A ws \in Conns :
            OnClose(ws)
            => \A i \in 1..Len(sent') :
                  \A r2 \in AllKeys \ {roomId[ws]} : sent'[i].to \notin Members(rooms', r2)
      ]_vars

\* C6: no room ever has more than 2 members.
C6_AtMostTwoMembers ==
    \A k \in DOMAIN rooms : Cardinality(Range(rooms[k])) <= 2

\* C7: every member of a room has that room's key as its roomId.
C7_MemberRemembersRoom ==
    \A k \in DOMAIN rooms : \A c \in Range(rooms[k]) : roomId[c] = k

\* C8: no socket is in the member set of more than one room.
C8_AtMostOneRoom ==
    \A c \in Conns : Cardinality({ k \in DOMAIN rooms : c \in Range(rooms[k]) }) <= 1

\* C9: an offer, answer or candidate naming a room the sender is not a
\* member of sends nothing and changes no room state.
C9_ForeignForwardNoOp ==
    [][\A ws \in Conns, r \in AllKeys, t \in ForwardTypes :
          (ws \notin Members(rooms, r) /\ OnMessage(ws, ForwardFrame(t, r)))
          => sent' = <<>> /\ rooms' = rooms /\ roomId' = roomId]_vars

\* C10: a message that JSON.parse rejects sends nothing and leaves the
\* registry, every member set, every roomId and every readyState as they
\* were, with the process still running, so the socket's next message meets
\* the state it would have met without the malformed one.
C10_MalformedIsDropped ==
    [][\A ws \in Conns :
          OnMessage(ws, Frame("bad", <<>>))
          => /\ sent' = <<>>
             /\ rooms' = rooms /\ roomId' = roomId
             /\ readyState' = readyState /\ crashed' = crashed]_vars

\* A member of room "r1" has just had a malformed message dropped.
C10_Witness ==
    /\ last.op = "message" /\ last.type = "SyntaxError"
    /\ last.conn \in Members(rooms, "r1")
    /\ ~crashed /\ readyState[last.conn] = "OPEN"

\* C11: no frame a socket can send ends the message handler with an error
\* nobody catches; the process keeps running.
C11_NoInputIsFatal == ~crashed

\* C12: an offer, answer or candidate naming a key that was never joined
\* (the Map has no such key) sends nothing, throws nothing, does not create
\* the room and changes no other state.
C12_NeverJoinedRoomNoOp ==
    [][\A ws \in Conns, r \in AllKeys, t \in ForwardTypes :
          (~RoomsHas(rooms, r) /\ OnMessage(ws, ForwardFrame(t, r)))
          => /\ sent' = <<>>
             /\ rooms' = rooms /\ roomId' = roomId
             /\ readyState' = readyState /\ crashed' = FALSE]_vars

\* An offer has just been dropped although the only room there is has an
\* open member other than the sender: it named a key that was never joined.
C12_Witness ==
    /\ last.op = "message" /\ last.type = "offer"
    /\ DOMAIN rooms = {"r1"}
    /\ \E b \in Members(rooms, "r1") : b # last.conn /\ readyState[b] = "OPEN"
    /\ sent = <<>>
    /\ ~crashed

\* C13: no member set contains a socket whose 'close' has been handled.
C13_ClosedSocketsAreRemoved ==
    \A k \in DOMAIN rooms : \A c \in Range(rooms[k]) : readyState[c] # "CLOSED"

\* C14: whatever the key r a socket joined under last, the socket's 'close'
\* removes it from room r and sends 'leave' to every other open member.
C14_CloseForAnyKey ==
    [][\A ws \in Conns, r \in AllKeys :
          (roomId[ws] = r /\ ws \in Members(rooms, r) /\ OnClose(ws))
          => /\ ws \notin Members(rooms', r)
             /\ \A b \in Members(rooms, r) \ {ws} :
                   readyState[b] = "OPEN"
                   => SentTo(sent', b) = << [to |-> b, data |-> BrokerFrame("leave")] >>]_vars

\* The members of room r, other than c, that are open.
OtherOpenMembers(r, c) == { o \in Members(rooms, r) \ {c} : readyState[o] = "OPEN" }

\* C15: a join of R by c while no other open socket is a member of R sends
\* 'joined' to c; and a join of a room with fewer than two open members
\* sends 'joined' to the joiner or 'ready' to the other open member.
C15_EveryJoinIsAnnounced ==
    [][\A c \in Conns, r \in AllKeys :
          OnMessage(c, JoinFrame(r))
          => /\ OtherOpenMembers(r, c) = {}
                => SentTo(sent', c) = << [to |-> c, data |-> BrokerFrame("joined")] >>
             /\ Cardinality(OtherOpenMembers(r, c)) < 2
                => \/ SentTo(sent', c) = << [to |-> c, data |-> BrokerFrame("joined")] >>
                   \/ \E o \in OtherOpenMembers(r, c) :
                         SentTo(sent', o) = << [to |-> o, data |-> BrokerFrame("ready")] >>]_vars

\* What broadcast(room, message, exclude) has to send, whatever the order:
\* message once to every open member of room other than exclude, nothing
\* to anybody else.
BroadcastDelivers(s, rms, rs, room, message, exclude) ==
    \A c \in Conns :
        SentTo(s, c) = IF c \in Members(rms, room) /\ c # exclude /\ rs[c] = "OPEN"
                       THEN << [to |-> c, data |-> JSONstringify(message)] >>
                       ELSE <<>>

\* C16: each call of broadcast (by a forward, and by a close that finds its
\* room) sends the message once to each open member other than the excluded
\* socket and to nobody else, and removes no member: a forward leaves the
\* registry as it was, a close removes the closing socket only.
C16_BroadcastPrimitive ==
    [][/\ \A ws \in Conns, r \in AllKeys, t \in ForwardTypes :
            OnMessage(ws, ForwardFrame(t, r))
            => /\ BroadcastDelivers(sent', rooms, readyState, r,
                                    JSONparse(ForwardFrame(t, r)), ws)
               /\ rooms' = rooms
       /\ \A ws \in Conns :
            (OnClose(ws) /\ Truthy(roomId[ws]) /\ RoomsHas(rooms, roomId[ws]))
            => /\ BroadcastDelivers(sent', rooms, readyState', roomId[ws],
                                    TypeOnly("leave"), ws)
               /\ DOMAIN rooms' = DOMAIN rooms
               /\ \A k \in DOMAIN rooms :
                     Members(rooms', k) = IF k = roomId[ws]
                                          THEN Members(rooms, k) \ {ws}
                                          ELSE Members(rooms, k)
       /\ \A i \in 1..Len(sent') : readyState'[sent'[i].to] = "OPEN"
      ]_vars

\* A close has just sent 'leave' to the open member of its room and skipped
\* a member that is not open, which is still in the member set.
C16_Witness ==
    /\ last.op = "close"
    /\ \E b \in Conns, c \in Conns :
          /\ b # c /\ b # last.conn /\ c # last.conn
          /\ {b, c} \subseteq Members(rooms, roomId[last.conn])
          /\ readyState[b] # "OPEN" /\ readyState[c] = "OPEN"
          /\ sent = << [to |-> c, data |-> BrokerFrame("leave")] >>

\* The registry without key k.
Drop(rms, k) == [x \in (DOMAIN rms) \ {k} |-> rms[x]]

\* Registries p and q have the same members under every key.
SameMembers(p, q) == \A x \in AllKeys : Members(p, x) = Members(q, x)

\* C17: no key ever leaves the registry, so an emptied room stays with an
\* empty member set; and from a state where room k is empty, every join,
\* forward and close sends the messages, and leaves the members, that it
\* would with k absent from the registry.
C17_EmptiedRoomAsAbsent ==
    [][/\ DOMAIN rooms \subseteq DOMAIN rooms'
       /\ \A k \in DOMAIN rooms :
            rooms[k] = <<>>
            => /\ \A ws \in Conns, r \in AllKeys :
                    OnMessage(ws, JoinFrame(r))
                    => /\ sent' = JoinSends(Drop(rooms, k), readyState, ws, r)
                       /\ SameMembers(rooms', JoinRooms(Drop(rooms, k), ws, r))
               /\ \A ws \in Conns, r \in AllKeys, t \in ForwardTypes :
                    OnMessage(ws, ForwardFrame(t, r))
                    => /\ sent' = broadcast(Drop(rooms, k), readyState, r,
                                            JSONparse(ForwardFrame(t, r)), ws)
                       /\ SameMembers(rooms', Drop(rooms, k))
               /\ \A ws \in Conns :
                    OnClose(ws)
                    => /\ sent' = CloseSends(Drop(rooms, k), roomId, readyState', ws)
                       /\ SameMembers(rooms', CloseRooms(Drop(rooms, k), roomId, ws))
      ]_vars

\* A room whose only member closed, and was removed, has just been joined
\* again: the joiner is its only member and was sent 'joined'.
C17_Witness ==
    /\ last.op = "message" /\ last.type = "join"
    /\ \E a \in Conns :
          /\ a # last.conn /\ readyState[a] = "CLOSED"
          /\ roomId[a] = roomId[last.conn] /\ Truthy(roomId[a])
    /\ RoomsHas(rooms, roomId[last.conn])
    /\ rooms[roomId[last.conn]] = << last.conn >>
    /\ sent = << [to |-> last.conn, data |-> BrokerFrame("joined")] >>

\* C18: handlers run one at a time, so a socket that joins R when another
\* socket is already a member never receives 'joined'; and when that other
\* socket is the only member and is open, it receives the 'ready'.
C18_SerializedJoins ==
    [][\A a \in Conns, b \in Conns, r \in AllKeys :
          (a # b /\ a \in Members(rooms, r) /\ OnMessage(b, JoinFrame(r)))
          => /\ \A i \in 1..Len(sent') : sent'[i].data # BrokerFrame("joined")
             /\ (Members(rooms, r) = {a} /\ readyState[a] = "OPEN")
                => SentTo(sent', a) = << [to |-> a, data |-> BrokerFrame("ready")] >>]_vars

\* The only two messages handled so far are two sockets' joins of one room:
\* the first found it empty, and the second has just produced 'ready' for it.
C18_Witness ==
    /\ handled = 2
    /\ last.op = "message" /\ last.type = "join"
    /\ \E a \in Conns, r \in AllKeys :
          /\ a # last.conn
          /\ RoomsHas(rooms, r) /\ rooms[r] = <<a, last.conn>>
          /\ roomId[a] = r /\ roomId[last.conn] = r
          /\ SentTo(sent, a) = << [to |-> a, data |-> BrokerFrame("ready")] >>
          /\ SentTo(sent, last.conn) = <<>>

\* C19: a join of R by a socket that is already a member of R leaves R's
\* member set and the socket's roomId as they were.
C19_RepeatedJoinIdempotent ==
    [][\A ws \in Conns, r \in AllKeys :
          (ws \in Members(rooms, r) /\ OnMessage(ws, JoinFrame(r)))
          => rooms' = rooms /\ roomId' = roomId]_vars

\* C20: a join of R by a socket that is not a member, when R has two
\* members, adds the socket, sets its roomId to R and sends nothing.
C20_ThirdJoinIsSilent ==
    [][\A ws \in Conns, r \in AllKeys :
          (ws \notin Members(rooms, r) /\ Cardinality(Members(rooms, r)) = 2
             /\ OnMessage(ws, JoinFrame(r)))
          => /\ Members(rooms', r) = Members(rooms, r) \cup {ws}
             /\ roomId'[ws] = r
             /\ sent' = <<>>]_vars

\* A third socket has just joined a room whose two members are open, and
\* nothing was sent.
C20_Witness ==
    /\ last.op = "message" /\ last.type = "join"
    /\ Cardinality(Members(rooms, roomId[last.conn])) = 3
    /\ \A c \in Members(rooms, roomId[last.conn]) : readyState[c] = "OPEN"
    /\ sent = <<>>
====
